---- MODULE Spec2Model ----
(***************************************************************************)
(* Menstrual-cycle phase prediction: phase windows, stage lookup, mucus    *)
(* weights, day-match scoring, phase classification, consistency          *)
(* enforcement, day-in-phase tracking and content rotation.                *)
(*                                                                         *)
(* The program is a library of functions without shared state.  The state  *)
(* of the model is the call in progress (frame): the function called, its  *)
(* arguments and what the call produced (a value, or the exception it      *)
(* raised).  Between two calls there is no frame and the library keeps     *)
(* nothing; what a caller carries from one daily prediction to the next    *)
(* (session) is the caller's.                                              *)
(*                                                                         *)
(* Numbers: the floats of the program are tenths (scores and weights),     *)
(* hundredths (mucus_score) and thousandths (total_score), kept as         *)
(* integers.                                                               *)
(***************************************************************************)
EXTENDS Integers, Sequences, FiniteSets, TLC

\* no frame: <<>>; a call of f: (f :> [args |-> ..., ret |-> ...])
\* session: what the caller of the daily predictions holds
VARIABLES frame, session

vars == <<frame, session>>

\* the function called, "none" between two calls
call == IF DOMAIN frame = {} THEN "none" ELSE CHOOSE f \in DOMAIN frame : TRUE

\* the arguments of the call
args == frame[call].args

\* what the call produced: [status |-> "ok", value |-> v], or
\* [status |-> e] for an exception e
ret == frame[call].ret

Frame(f, a, r) == f :> [args |-> a, ret |-> r]

(***************************************************************************)
(* Bounds of the inputs the model enumerates.                              *)
(***************************************************************************)
MinCycleInput == 21
MaxCycleInput == 37
DayMargin == 6
MaxDayInPhase == 9
MaxPrevDay == 2
MaxSessionDays == 4

CycleInputs == MinCycleInput..MaxCycleInput

(***************************************************************************)
(* Python values.                                                          *)
(***************************************************************************)
None == "NoneType"

Ok(v) == [status |-> "ok", value |-> v]

Raise(e) == [status |-> e]

\* d.get(k, default)
dict_get(d, k, default) == IF k \in DOMAIN d THEN d[k] ELSE default

\* range(a, b): the integers a, a+1, ..., b-1
range(a, b) == a..(b - 1)

SetMin(S) == CHOOSE m \in S : \A x \in S : m <= x

SetMax(S) == CHOOSE m \in S : \A x \in S : m >= x

abs(x) == IF x < 0 THEN -x ELSE x

\* round(n / d) for d > 0: nearest integer, a tie goes to the even one
round(n, d) ==
    LET q == n \div d
        r == n % d
    IN  IF 2 * r < d THEN q
        ELSE IF 2 * r > d THEN q + 1
        ELSE IF q % 2 = 0 THEN q ELSE q + 1

(***************************************************************************)
(* phase_utils.get_phase_day_ranges                                        *)
(***************************************************************************)
ov_len == 5
el_len == 6
ll_len == 6
fixed_len == ov_len + el_len + ll_len

\* the keys of the returned dict, in insertion order
phase_keys == <<"EF", "LF", "OV", "EL", "LL">>

Phases == {phase_keys[i] : i \in 1..Len(phase_keys)}

\* faulty variant: the ovulation window starts on the last follicular day
get_phase_day_ranges_overlap(cycle_length) ==
    LET flexible_len == cycle_length - fixed_len
        ef_len == round(flexible_len * 7, 11)
        lf_len == flexible_len - ef_len
        ef_start == 1
        ef_end == ef_start + ef_len - 1
        lf_start == ef_end + 1
        lf_end == lf_start + lf_len - 1
        ov_start == lf_end
        ov_end == ov_start + ov_len - 1
        el_start == ov_end + 1
        el_end == el_start + el_len - 1
        ll_start == el_end + 1
        ll_end == cycle_length
    IN  [EF |-> range(ef_start, ef_end + 1),
         LF |-> range(lf_start, lf_end + 1),
         OV |-> range(ov_start, ov_end + 1),
         EL |-> range(el_start, el_end + 1),
         LL |-> range(ll_start, ll_end + 1)]

\* faulty variant: the durations of the docstring, Early Luteal 5 days
get_phase_day_ranges_docstring(cycle_length) ==
    LET flexible_len == cycle_length - (ov_len + 5 + 7)
        ef_len == round(flexible_len * 7, 11)
        lf_len == flexible_len - ef_len
        ef_start == 1
        ef_end == ef_start + ef_len - 1
        lf_start == ef_end + 1
        lf_end == lf_start + lf_len - 1
        ov_start == lf_end + 1
        ov_end == ov_start + ov_len - 1
        el_start == ov_end + 1
        el_end == el_start + 5 - 1
        ll_start == el_end + 1
        ll_end == cycle_length
    IN  [EF |-> range(ef_start, ef_end + 1),
         LF |-> range(lf_start, lf_end + 1),
         OV |-> range(ov_start, ov_end + 1),
         EL |-> range(el_start, el_end + 1),
         LL |-> range(ll_start, ll_end + 1)]

get_phase_day_ranges(cycle_length) ==
    LET flexible_len == cycle_length - fixed_len
        ef_len == round(flexible_len * 7, 11)
        lf_len == flexible_len - ef_len
        ef_start == 1
        ef_end == ef_start + ef_len - 1
        lf_start == ef_end + 1
        lf_end == lf_start + lf_len - 1
        ov_start == lf_end + 1
        ov_end == ov_start + ov_len - 1
        el_start == ov_end + 1
        el_end == el_start + el_len - 1
        ll_start == el_end + 1
        ll_end == cycle_length
    IN  [EF |-> range(ef_start, ef_end + 1),
         LF |-> range(lf_start, lf_end + 1),
         OV |-> range(ov_start, ov_end + 1),
         EL |-> range(el_start, el_end + 1),
         LL |-> range(ll_start, ll_end + 1)]

(***************************************************************************)
(* phase_utils.get_phase_lengths                                           *)
(***************************************************************************)
get_phase_lengths(cycle_length) ==
    LET day_ranges == get_phase_day_ranges(cycle_length)
    IN  [phase \in DOMAIN day_ranges |-> Cardinality(day_ranges[phase])]

(***************************************************************************)
(* phase_utils.day_match_score, in tenths.  The inputs of the model give   *)
(* non-empty ranges, so min() has something to take the minimum of.  The   *)
(* tenth is the value of 1 - 0.2 * min_dist to within one rounding step:   *)
(* the doubles at distances 3 and 4 lie just below 0.4 and 0.2, those at   *)
(* distances 0, 1, 2 and 5 or more are 1.0, 0.8, 0.6 and 0.0.              *)
(***************************************************************************)
\* faulty variant: the decay is 0.1 per day
day_match_score_slow(day, phase, phase_day_ranges) ==
    IF day \in phase_day_ranges[phase]
    THEN 10
    ELSE LET min_dist == SetMin({abs(day - d) : d \in phase_day_ranges[phase]})
             s == 10 - 1 * min_dist
         IN  IF s > 0 THEN s ELSE 0

day_match_score(day, phase, phase_day_ranges) ==
    IF day \in phase_day_ranges[phase]
    THEN 10
    ELSE LET min_dist == SetMin({abs(day - d) : d \in phase_day_ranges[phase]})
             s == 10 - 2 * min_dist
         IN  IF s > 0 THEN s ELSE 0

(***************************************************************************)
(* phase_utils.get_stage                                                   *)
(***************************************************************************)
ovulation_stage_days ==
    (23 :> <<7, 13>>)  @@ (24 :> <<8, 14>>)  @@ (25 :> <<9, 15>>)  @@
    (26 :> <<10, 16>>) @@ (27 :> <<11, 17>>) @@ (28 :> <<12, 18>>) @@
    (29 :> <<13, 19>>) @@ (30 :> <<14, 20>>) @@ (31 :> <<15, 21>>) @@
    (32 :> <<16, 22>>) @@ (33 :> <<17, 23>>) @@ (34 :> <<18, 24>>) @@
    (35 :> <<18, 25>>)

\* faulty variant: the first day of the window still counts as pre-ovulation
get_stage_late(cycle_day, cycle_length) ==
    IF cycle_length \notin DOMAIN ovulation_stage_days
    THEN Raise("KeyError")
    ELSE LET start_ov == ovulation_stage_days[cycle_length][1]
             end_ov == ovulation_stage_days[cycle_length][2]
         IN  IF cycle_day <= start_ov THEN Ok("pre-ovulation")
             ELSE IF start_ov <= cycle_day /\ cycle_day <= end_ov
                  THEN Ok("ovulation")
                  ELSE Ok("post-ovulation")

get_stage(cycle_day, cycle_length) ==
    IF cycle_length \notin DOMAIN ovulation_stage_days
    THEN Raise("KeyError")
    ELSE LET start_ov == ovulation_stage_days[cycle_length][1]
             end_ov == ovulation_stage_days[cycle_length][2]
         IN  IF cycle_day < start_ov THEN Ok("pre-ovulation")
             ELSE IF start_ov <= cycle_day /\ cycle_day <= end_ov
                  THEN Ok("ovulation")
                  ELSE Ok("post-ovulation")

(***************************************************************************)
(* phase_utils.get_weights, affinities in tenths                           *)
(***************************************************************************)
stage_mucus_scores ==
    ("pre-ovulation" :>
        (("none" :> [EF |-> 10, LF |-> 8]) @@
         ("sticky" :> [EF |-> 10, LF |-> 8]) @@
         ("creamy" :> [LF |-> 5]) @@
         ("egg white" :> [LF |-> 3]) @@
         ("watery" :> [EF |-> 4, LF |-> 7]))) @@
    ("ovulation" :>
        (("none" :> [LF |-> 4, EL |-> 5]) @@
         ("sticky" :> [LF |-> 4, EL |-> 5]) @@
         ("creamy" :> [LF |-> 4]) @@
         ("egg white" :> [OV |-> 7]) @@
         ("watery" :> [OV |-> 10]))) @@
    ("post-ovulation" :>
        (("none" :> [EL |-> 7, LL |-> 7]) @@
         ("sticky" :> [EL |-> 7, LL |-> 7]) @@
         ("creamy" :> <<>>) @@
         ("egg white" :> [OV |-> 10, EL |-> 5, LL |-> 5]) @@
         ("watery" :> [OV |-> 10, EL |-> 5, LL |-> 5])))

get_weights(cycle_day, cycle_length) ==
    LET stage == get_stage(cycle_day, cycle_length)
    IN  IF stage.status # "ok" THEN stage
        ELSE Ok(dict_get(stage_mucus_scores, stage.value, <<>>))

(***************************************************************************)
(* phase_utils.consistent_phase                                            *)
(***************************************************************************)
phase_order == <<"EF", "LF", "OV", "EL", "LL">>

\* list.index(x); the callers check membership first
index(list, x) == CHOOSE i \in 1..Len(list) : list[i] = x

contains(list, x) == \E i \in 1..Len(list) : list[i] = x

\* faulty variant: "either the same as or one step after the previous phase"
consistent_phase_one_step(prev_phase, today_phase) ==
    IF ~contains(phase_order, prev_phase) \/ ~contains(phase_order, today_phase)
    THEN Raise("ValueError")
    ELSE LET prev_index == index(phase_order, prev_phase)
             today_index == index(phase_order, today_phase)
         IN  IF today_index >= prev_index /\ today_index <= prev_index + 1
             THEN Ok(today_phase)
             ELSE Ok(prev_phase)

consistent_phase(prev_phase, today_phase) ==
    IF ~contains(phase_order, prev_phase) \/ ~contains(phase_order, today_phase)
    THEN Raise("ValueError")
    ELSE LET prev_index == index(phase_order, prev_phase)
             today_index == index(phase_order, today_phase)
         IN  IF today_index >= prev_index
             THEN Ok(today_phase)
             ELSE Ok(prev_phase)

(***************************************************************************)
(* learning_content_suggestion.learning_content                            *)
(***************************************************************************)
PHASE_CYCLE_LENGTHS == [EF |-> 7, LF |-> 4, OV |-> 5, EL |-> 6, LL |-> 6]

\* faulty variant: the day is wrapped without the shift by one
learning_content_unshifted(phase, day_in_phase) ==
    IF phase \notin DOMAIN PHASE_CYCLE_LENGTHS
    THEN Raise("KeyError")
    ELSE LET cycle_len == PHASE_CYCLE_LENGTHS[phase]
             content_index == (day_in_phase % cycle_len) + 1
         IN  Ok(phase \o "_" \o ToString(content_index))

\* faulty variant: an unknown phase gets a content cycle of one item
learning_content_lenient(phase, day_in_phase) ==
    LET cycle_len == dict_get(PHASE_CYCLE_LENGTHS, phase, 1)
        content_index == ((day_in_phase - 1) % cycle_len) + 1
    IN  Ok(phase \o "_" \o ToString(content_index))

learning_content(phase, day_in_phase) ==
    IF phase \notin DOMAIN PHASE_CYCLE_LENGTHS
    THEN Raise("KeyError")
    ELSE LET cycle_len == PHASE_CYCLE_LENGTHS[phase]
             content_index == ((day_in_phase - 1) % cycle_len) + 1
         IN  Ok(phase \o "_" \o ToString(content_index))

(***************************************************************************)
(* phase_prediction.classify_phase                                         *)
(***************************************************************************)
\* the later 'LF' entry of 'creamy' replaces the earlier one
mucus_phase_scores ==
    ("none" :> [EF |-> 10, OV |-> 2, EL |-> 7, LL |-> 7]) @@
    ("sticky" :> [EF |-> 10, LF |-> 10, OV |-> 2, EL |-> 7, LL |-> 7]) @@
    ("creamy" :> [LF |-> 5]) @@
    ("egg white" :> [OV |-> 10, LF |-> 3]) @@
    ("watery" :> [OV |-> 10])

\* the three scores a phase's total is computed from
score_inputs(mucus_today, mucus_yesterday, cycle_day, cycle_length, phase) ==
    LET phase_day_ranges == get_phase_day_ranges(cycle_length)
        mt_score == dict_get(dict_get(mucus_phase_scores, mucus_today, <<>>), phase, 0)
        my_score == dict_get(dict_get(mucus_phase_scores, mucus_yesterday, <<>>), phase, 0)
        d_score == day_match_score(cycle_day, phase, phase_day_ranges)
    IN  <<mt_score, my_score, d_score>>

\* phase_scores[phase], in thousandths
total_score(mucus_today, mucus_yesterday, cycle_day, cycle_length, mucus_today_weight, mucus_yesterday_weight, mucus_vs_day_weight, phase) ==
    LET in == score_inputs(mucus_today, mucus_yesterday, cycle_day, cycle_length, phase)
        mucus_score == mucus_today_weight * in[1] + mucus_yesterday_weight * in[2]
    IN  mucus_vs_day_weight * mucus_score + (10 - mucus_vs_day_weight) * in[3] * 10

(***************************************************************************)
(* max(phase_scores, key=phase_scores.get) returns the first key, in the   *)
(* order EF, LF, OV, EL, LL, whose double is the largest.  Totals that are *)
(* equal as decimals need not be equal as doubles (1 - 0.2 * 3 is          *)
(* 0.3999999999999999), so among the phases whose decimal totals tie at    *)
(* the maximum the rounding decides; phases computed from the same three   *)
(* scores have the same double and the first of them wins.  classify_phase *)
(* is the set of phases the call can return: every phase of maximal        *)
(* decimal total that no earlier such phase with the same scores precedes. *)
(***************************************************************************)
classify_phase(mucus_today, mucus_yesterday, cycle_day, cycle_length, mucus_today_weight, mucus_yesterday_weight, mucus_vs_day_weight) ==
    LET N == Len(phase_keys)
        phase_scores == [i \in 1..N |->
            total_score(mucus_today, mucus_yesterday, cycle_day, cycle_length,
                        mucus_today_weight, mucus_yesterday_weight,
                        mucus_vs_day_weight, phase_keys[i])]
        in == [i \in 1..N |->
            score_inputs(mucus_today, mucus_yesterday, cycle_day, cycle_length,
                         phase_keys[i])]
        best == {i \in 1..N : \A j \in 1..N : phase_scores[j] <= phase_scores[i]}
    IN  {phase_keys[i] : i \in {k \in best : \A j \in best : j < k => in[j] # in[k]}}

\* the parameters of classify_phase: those without a default, and the defaults
classify_phase_required == {"mucus_today", "mucus_yesterday", "cycle_day", "cycle_length"}

classify_phase_defaults ==
    [mucus_today_weight |-> 7, mucus_yesterday_weight |-> 5, mucus_vs_day_weight |-> 5]

\* binding of the keyword arguments of a call to the parameters of the callee
bind(required, defaults, kwargs) ==
    IF \/ ~(required \subseteq DOMAIN kwargs)
       \/ ~(DOMAIN kwargs \subseteq (required \cup DOMAIN defaults))
    THEN Raise("TypeError")
    ELSE Ok(kwargs @@ defaults)

(***************************************************************************)
(* main_function.predict_phase_day_and_content: the set of outcomes of one *)
(* call (one outcome for each phase classify_phase can return).            *)
(***************************************************************************)
predict_phase_day_and_content(mucus_today, cycle_day, prev_day_in_phase, cycle_length, prev_phase, mucus_today_weight, mucus_vs_day_weight) ==
    LET bound == bind(classify_phase_required, classify_phase_defaults,
                      [mucus_today |-> mucus_today,
                       cycle_day |-> cycle_day,
                       cycle_length |-> cycle_length,
                       mucus_today_weight |-> mucus_today_weight,
                       mucus_vs_day_weight |-> mucus_vs_day_weight])
    IN  IF bound.status # "ok" THEN {bound}
        ELSE
          LET p == bound.value
              raw_phases == classify_phase(p.mucus_today, p.mucus_yesterday, p.cycle_day,
                                           p.cycle_length, p.mucus_today_weight,
                                           p.mucus_yesterday_weight, p.mucus_vs_day_weight)
              after(raw_phase) ==
                LET enforced == IF prev_phase # None
                                THEN consistent_phase(prev_phase, raw_phase)
                                ELSE Ok(raw_phase)
                IN  IF enforced.status # "ok" THEN enforced
                    ELSE
                      LET final_phase == enforced.value
                          day_in_phase == IF final_phase = prev_phase
                                          THEN prev_day_in_phase + 1
                                          ELSE 1
                          content_id == learning_content(final_phase, day_in_phase)
                      IN  IF content_id.status # "ok" THEN content_id
                          ELSE Ok(<<final_phase, day_in_phase, content_id.value>>)
          IN  {after(raw_phase) : raw_phase \in raw_phases}

(***************************************************************************)
(* Inputs                                                                  *)
(***************************************************************************)
\* the five observations, and one string that is none of them
mucus_types == {"none", "sticky", "creamy", "egg white", "watery"}

MucusInputs == mucus_types \cup {"None"}

\* phase labels, and strings that are none of them
PhaseInputs == Phases \cup {"XX", "ef"}

\* <<mucus_today_weight, mucus_yesterday_weight, mucus_vs_day_weight>> in tenths:
\* the defaults of classify_phase, and the weights the orchestrator passes
\* with yesterday's observation muted
WeightInputs == {<<7, 5, 5>>, <<10, 0, 6>>}

DayInputs(cycle_length) == (1 - DayMargin)..(cycle_length + DayMargin)

(***************************************************************************)
(* The calls                                                               *)
(***************************************************************************)
\* a caller before its first daily prediction of a cycle: no previous phase
NewSession(cycle_length) ==
    [cycle_length |-> cycle_length,
     prev_phase |-> None,
     prev_day_in_phase |-> 1,
     phases |-> <<>>,
     counters |-> <<>>,
     failed |-> FALSE]

\* 28 is the default cycle_length of predict_phase_day_and_content
Init ==
    /\ frame = <<>>
    /\ session = NewSession(28)

Call_get_phase_day_ranges ==
    /\ call = "none"
    /\ \E cycle_length \in CycleInputs :
        frame' = Frame("get_phase_day_ranges",
                       [cycle_length |-> cycle_length],
                       Ok(get_phase_day_ranges(cycle_length)))
    /\ UNCHANGED session

Call_get_phase_lengths ==
    /\ call = "none"
    /\ \E cycle_length \in CycleInputs :
        frame' = Frame("get_phase_lengths",
                       [cycle_length |-> cycle_length],
                       Ok(get_phase_lengths(cycle_length)))
    /\ UNCHANGED session

Call_day_match_score ==
    /\ call = "none"
    /\ \E cycle_length \in CycleInputs, phase \in Phases :
        \E day \in DayInputs(cycle_length) :
            frame' = Frame("day_match_score",
                           [day |-> day, phase |-> phase, cycle_length |-> cycle_length],
                           Ok(day_match_score(day, phase, get_phase_day_ranges(cycle_length))))
    /\ UNCHANGED session

Call_get_stage ==
    /\ call = "none"
    /\ \E cycle_length \in CycleInputs :
        \E cycle_day \in DayInputs(cycle_length) :
            frame' = Frame("get_stage",
                           [cycle_day |-> cycle_day, cycle_length |-> cycle_length],
                           get_stage(cycle_day, cycle_length))
    /\ UNCHANGED session

Call_get_weights ==
    /\ call = "none"
    /\ \E cycle_length \in CycleInputs :
        \E cycle_day \in DayInputs(cycle_length) :
            frame' = Frame("get_weights",
                           [cycle_day |-> cycle_day, cycle_length |-> cycle_length],
                           get_weights(cycle_day, cycle_length))
    /\ UNCHANGED session

Call_consistent_phase ==
    /\ call = "none"
    /\ \E prev_phase \in PhaseInputs, today_phase \in PhaseInputs :
        frame' = Frame("consistent_phase",
                       [prev_phase |-> prev_phase, today_phase |-> today_phase],
                       consistent_phase(prev_phase, today_phase))
    /\ UNCHANGED session

Call_learning_content ==
    /\ call = "none"
    /\ \E phase \in PhaseInputs, day_in_phase \in 1..MaxDayInPhase :
        frame' = Frame("learning_content",
                       [phase |-> phase, day_in_phase |-> day_in_phase],
                       learning_content(phase, day_in_phase))
    /\ UNCHANGED session

Call_classify_phase ==
    /\ call = "none"
    /\ \E mucus_today \in MucusInputs, mucus_yesterday \in MucusInputs,
       cycle_length \in CycleInputs, w \in WeightInputs :
        \E cycle_day \in 1..cycle_length :
            \E best_phase \in classify_phase(mucus_today, mucus_yesterday, cycle_day,
                                              cycle_length, w[1], w[2], w[3]) :
                frame' = Frame("classify_phase",
                               [mucus_today |-> mucus_today,
                                mucus_yesterday |-> mucus_yesterday,
                                cycle_day |-> cycle_day,
                                cycle_length |-> cycle_length,
                                mucus_today_weight |-> w[1],
                                mucus_yesterday_weight |-> w[2],
                                mucus_vs_day_weight |-> w[3]],
                               Ok(best_phase))
    /\ UNCHANGED session

Call_predict_phase_day_and_content ==
    /\ call = "none"
    /\ \E mucus_today \in MucusInputs, cycle_length \in CycleInputs,
       prev_phase \in Phases \cup {None}, prev_day_in_phase \in 1..MaxPrevDay :
        \E cycle_day \in 1..cycle_length :
            \E outcome \in predict_phase_day_and_content(
                                mucus_today, cycle_day, prev_day_in_phase, cycle_length,
                                prev_phase, 10, 6) :
                frame' = Frame("predict_phase_day_and_content",
                               [mucus_today |-> mucus_today,
                                cycle_day |-> cycle_day,
                                prev_day_in_phase |-> prev_day_in_phase,
                                cycle_length |-> cycle_length,
                                prev_phase |-> prev_phase,
                                mucus_today_weight |-> 10,
                                mucus_vs_day_weight |-> 6],
                               outcome)
    /\ UNCHANGED session

\* the call is over: the caller has its result, the library keeps nothing
Return ==
    /\ call # "none"
    /\ frame' = <<>>
    /\ UNCHANGED session

Next ==
    \/ Call_get_phase_day_ranges
    \/ Call_get_phase_lengths
    \/ Call_day_match_score
    \/ Call_get_stage
    \/ Call_get_weights
    \/ Call_consistent_phase
    \/ Call_learning_content
    \/ Call_classify_phase
    \/ Call_predict_phase_day_and_content
    \/ Return

Spec == Init /\ [][Next]_vars

(***************************************************************************)
(* Daily predictions of one cycle.  The caller passes no previous phase    *)
(* on the first day and afterwards the final_phase and day_in_phase it got *)
(* the day before; observation and cycle day are free each day.  An        *)
(* exception of the call is not caught and ends the caller.                *)
(***************************************************************************)
SessionInit ==
    /\ frame = <<>>
    /\ \E cycle_length \in CycleInputs : session = NewSession(cycle_length)

DailyPrediction ==
    /\ ~session.failed
    /\ Len(session.phases) < MaxSessionDays
    /\ \E mucus_today \in MucusInputs, cycle_day \in 1..session.cycle_length,
          first_prev_day \in 1..MaxPrevDay :
        LET prev_day_in_phase == IF session.prev_phase = None
                                 THEN first_prev_day
                                 ELSE session.prev_day_in_phase
        IN  \E outcome \in predict_phase_day_and_content(
                               mucus_today, cycle_day, prev_day_in_phase,
                               session.cycle_length, session.prev_phase, 10, 6) :
                /\ frame' = Frame("predict_phase_day_and_content",
                                  [mucus_today |-> mucus_today,
                                   cycle_day |-> cycle_day,
                                   prev_day_in_phase |-> prev_day_in_phase,
                                   cycle_length |-> session.cycle_length,
                                   prev_phase |-> session.prev_phase,
                                   mucus_today_weight |-> 10,
                                   mucus_vs_day_weight |-> 6],
                                  outcome)
                /\ session' = IF outcome.status = "ok"
                              THEN [session EXCEPT
                                      !.prev_phase = outcome.value[1],
                                      !.prev_day_in_phase = outcome.value[2],
                                      !.phases = Append(@, outcome.value[1]),
                                      !.counters = Append(@, outcome.value[2])]
                              ELSE [session EXCEPT !.failed = TRUE]

SessionNext == DailyPrediction

SessionSpec == SessionInit /\ [][SessionNext]_vars

(***************************************************************************)
(* What the specification says, stated without the definitions above.      *)
(***************************************************************************)
\* the cycle lengths the claims are about
SupportedCycleLengths == 23..35

\* EF < LF < OV < EL < LL
PhasePosition == [EF |-> 1, LF |-> 2, OV |-> 3, EL |-> 4, LL |-> 5]

\* the content-cycle lengths as the specification lists them
ContentCycleLength == [EF |-> 7, LF |-> 4, OV |-> 5, EL |-> 6, LL |-> 6]

\* the classifier of the specification: the affinity of today's observation in
\* the table of the stage of the day, and the day-match score; in thousandths
SpecifiedTotal(mucus_today, cycle_day, cycle_length, mucus_today_weight, mucus_vs_day_weight, phase) ==
    LET table == get_weights(cycle_day, cycle_length).value
        affinity == dict_get(dict_get(table, mucus_today, <<>>), phase, 0)
        day_score == day_match_score(cycle_day, phase, get_phase_day_ranges(cycle_length))
    IN  mucus_vs_day_weight * (mucus_today_weight * affinity)
          + (10 - mucus_vs_day_weight) * day_score * 10

\* the first phase, in the order EF, LF, OV, EL, LL, of maximal specified total
SpecifiedPhase(mucus_today, cycle_day, cycle_length, mucus_today_weight, mucus_vs_day_weight) ==
    LET t == [i \in 1..5 |->
                SpecifiedTotal(mucus_today, cycle_day, cycle_length,
                               mucus_today_weight, mucus_vs_day_weight, phase_keys[i])]
        first == SetMin({i \in 1..5 : \A j \in 1..5 : t[j] <= t[i]})
    IN  phase_keys[first]

\* the phase whose day range holds the day
PhaseOfDay(cycle_day, cycle_length) ==
    CHOOSE phase \in Phases : cycle_day \in get_phase_day_ranges(cycle_length)[phase]

\* C1: for every observation, cycle length in [23,35], cycle day, previous
\* phase (or none) and previous counter, the orchestrator raises nothing and
\* returns (final_phase, day_in_phase, content_id): the enforced raw phase of
\* the classifier, the tracker's counter and the content rotation of the two.
C1_OrchestratorReturnsTriple ==
    (/\ call = "predict_phase_day_and_content"
     /\ args.mucus_today \in mucus_types
     /\ args.cycle_length \in SupportedCycleLengths)
    => /\ ret.status = "ok"
       /\ LET raw == SpecifiedPhase(args.mucus_today, args.cycle_day, args.cycle_length,
                                    args.mucus_today_weight, args.mucus_vs_day_weight)
              final == IF args.prev_phase = None
                       THEN raw
                       ELSE IF PhasePosition[raw] >= PhasePosition[args.prev_phase]
                            THEN raw ELSE args.prev_phase
              day == IF final = args.prev_phase THEN args.prev_day_in_phase + 1 ELSE 1
          IN  /\ ret.value[1] = final
              /\ ret.value[2] = day
              /\ ret.value[3] = learning_content(final, day).value

C3_RangesPartitionCycle ==
    (/\ call = "get_phase_day_ranges"
     /\ args.cycle_length \in SupportedCycleLengths)
    => LET r == ret.value
           order == <<"EF", "LF", "OV", "EL", "LL">>
       IN  /\ \A i \in 1..5 : /\ r[order[i]] # {}
                              /\ r[order[i]] = SetMin(r[order[i]])..SetMax(r[order[i]])
           /\ SetMin(r["EF"]) = 1
           /\ \A i \in 1..4 : SetMin(r[order[i + 1]]) = SetMax(r[order[i]]) + 1
           /\ SetMax(r["LL"]) = args.cycle_length
           /\ \A d \in 1..args.cycle_length :
                 Cardinality({i \in 1..5 : d \in r[order[i]]}) = 1

\* C3: the ranges of the longest supported cycle have been computed
C3_Witness ==
    /\ call = "get_phase_day_ranges"
    /\ args.cycle_length = 35
    /\ ret.value["EF"] = 1..11
    /\ ret.value["LL"] = 30..35

\* the lengths the specification gives the five phases of a cycle
SpecifiedLengths(cycle_length, len) ==
    LET flexible == cycle_length - 17
    IN  /\ len["OV"] = 5
        /\ len["EL"] = 6
        /\ len["LL"] = 6
        /\ 2 * abs(11 * len["EF"] - 7 * flexible) <= 11
        /\ len["LF"] = flexible - len["EF"]
        /\ (cycle_length = 28 => len["EF"] = 7 /\ len["LF"] = 4)

C5_DayInPhaseReturned ==
    call = "predict_phase_day_and_content"
    => /\ ret.status = "ok"
       /\ ret.value[2] = IF args.prev_phase # None /\ ret.value[1] = args.prev_phase
                         THEN args.prev_day_in_phase + 1
                         ELSE 1

\* C6: learning_content(phase, d) is "<phase>_<index>" with index in [1, L]
\* and index = ((d - 1) mod L) + 1 for the phase's content-cycle length L, so
\* days d and d + L give the same content; EF day 1 gives EF_1, day 7 EF_7,
\* day 8 EF_1.
C6_ContentRotation ==
    (call = "learning_content" /\ args.phase \in Phases)
    => LET L == ContentCycleLength[args.phase]
           d == args.day_in_phase
       IN  /\ ret.status = "ok"
           /\ \E k \in 1..L : /\ (d - k) % L = 0
                              /\ ret.value = args.phase \o "_" \o ToString(k)
           /\ learning_content(args.phase, d + L).value = ret.value
           /\ (args.phase = "EF" /\ d = 1 => ret.value = "EF_1")
           /\ (args.phase = "EF" /\ d = 7 => ret.value = "EF_7")
           /\ (args.phase = "EF" /\ d = 8 => ret.value = "EF_1")

\* C6: the content of the eighth Early Follicular day has wrapped to the first
C6_Witness ==
    /\ call = "learning_content"
    /\ args.phase = "EF"
    /\ args.day_in_phase = 8
    /\ ret.value = "EF_1"

\* C7: for every cycle length in [23,35], phase and day, day_match_score is
\* 1.0 inside the phase's range and max(0, 1 - 0.2 * distance) outside, the
\* distance being that to the nearest day of the range: 0.6 at distance 2,
\* 0.0 at distance 5 or more, and always within [0, 1].  (Tenths.)
C7_DayMatchScore ==
    (call = "day_match_score" /\ args.cycle_length \in SupportedCycleLengths)
    => LET r == get_phase_day_ranges(args.cycle_length)[args.phase]
           lo == SetMin(r)
           hi == SetMax(r)
           distance == IF args.day < lo THEN lo - args.day
                       ELSE IF args.day > hi THEN args.day - hi ELSE 0
       IN  /\ ret.status = "ok"
           /\ (distance = 0 => ret.value = 10)
           /\ (distance > 0 /\ distance < 5 => ret.value = 10 - 2 * distance)
           /\ (distance = 2 => ret.value = 6)
           /\ (distance >= 5 => ret.value = 0)
           /\ ret.value >= 0
           /\ ret.value <= 10

\* C7: a day two days before the ovulation range of a 28-day cycle scored 0.6
C7_Witness ==
    /\ call = "day_match_score"
    /\ args.cycle_length = 28
    /\ args.phase = "OV"
    /\ args.day = 10
    /\ ret.value = 6

\* C8: for every observation, cycle length in [23,35] and cycle day,
\* classify_phase returns the first phase in the order EF, LF, OV, EL, LL of
\* maximal total = mucus_vs_day_weight * (mucus_today_weight * affinity)
\* + (1 - mucus_vs_day_weight) * day_score, the affinity taken from the mucus
\* weight table of the stage of the day; only today's observation counts.
C8_ClassifiesByStageTable ==
    (/\ call = "classify_phase"
     /\ args.mucus_today \in mucus_types
     /\ args.cycle_length \in SupportedCycleLengths)
    => /\ ret.status = "ok"
       /\ ret.value = SpecifiedPhase(args.mucus_today, args.cycle_day, args.cycle_length,
                                     args.mucus_today_weight, args.mucus_vs_day_weight)

\* C9: an unrecognized observation is no error: for every cycle length in
\* [23,35], cycle day and mucus_vs_day_weight < 1 the classification raises
\* nothing and, the mucus term being 0 for every phase, the day-match score
\* alone decides: the phase returned is the one whose day range holds the
\* cycle day.
C9_UnrecognizedMucusDayDecides ==
    (/\ call = "classify_phase"
     /\ args.mucus_today \notin mucus_types
     /\ args.cycle_length \in SupportedCycleLengths
     /\ args.mucus_vs_day_weight < 10)
    => /\ ret.status = "ok"
       /\ ret.value = PhaseOfDay(args.cycle_day, args.cycle_length)

\* C10: for every cycle length in [23,35] with table entry (start, end)
\* get_stage returns 'pre-ovulation' for a day before start, 'ovulation' for
\* a day in [start, end] and 'post-ovulation' for a day after end; for any
\* other cycle length it fails with a key error and returns no stage.
C10_Stage ==
    call = "get_stage"
    => IF args.cycle_length \in SupportedCycleLengths
       THEN LET start == ovulation_stage_days[args.cycle_length][1]
                end == ovulation_stage_days[args.cycle_length][2]
            IN  /\ ret.status = "ok"
                /\ (args.cycle_day < start => ret.value = "pre-ovulation")
                /\ (start <= args.cycle_day /\ args.cycle_day <= end
                      => ret.value = "ovulation")
                /\ (args.cycle_day > end => ret.value = "post-ovulation")
       ELSE /\ ret.status = "KeyError"
            /\ "value" \notin DOMAIN ret

\* C10: the first day of the ovulation window of a 35-day cycle was classified
C10_Witness ==
    /\ call = "get_stage"
    /\ args.cycle_length = 35
    /\ args.cycle_day = 18
    /\ ret.status = "ok"
    /\ ret.value = "ovulation"

\* C11: a phase label that is not one of EF, LF, OV, EL, LL is rejected with
\* an error and no result: consistent_phase fails when the previous or
\* today's phase is such a label, learning_content fails when its phase is
\* such a label, whatever the day_in_phase.
C11_UnknownPhaseRejected ==
    LET known == {"EF", "LF", "OV", "EL", "LL"}
    IN  /\ (/\ call = "consistent_phase"
            /\ (args.prev_phase \notin known \/ args.today_phase \notin known))
           => (ret.status # "ok" /\ "value" \notin DOMAIN ret)
        /\ (call = "learning_content" /\ args.phase \notin known)
           => (ret.status # "ok" /\ "value" \notin DOMAIN ret)

\* C11: the content of an unknown phase has been asked for and refused
C11_Witness ==
    /\ call = "learning_content"
    /\ args.phase = "ef"
    /\ args.day_in_phase = 3
    /\ ret.status = "KeyError"

\* C12: as the docstring of get_phase_day_ranges has it, Ovulation lasts 5
\* days, Early Luteal 5 and Late Luteal 7, and get_phase_day_ranges(28)
\* returns EF = days 1..7, LF = 8..11, OV = 12..16, EL = 17..21, LL = 22..28.
C12_DocstringRanges ==
    (call = "get_phase_day_ranges" /\ args.cycle_length \in SupportedCycleLengths)
    => /\ Cardinality(ret.value["OV"]) = 5
       /\ Cardinality(ret.value["EL"]) = 5
       /\ Cardinality(ret.value["LL"]) = 7
       /\ (args.cycle_length = 28
             => /\ ret.value["EF"] = 1..7
                /\ ret.value["LF"] = 8..11
                /\ ret.value["OV"] = 12..16
                /\ ret.value["EL"] = 17..21
                /\ ret.value["LL"] = 22..28)

\* the number of consecutive entries up to the i-th that equal the i-th
RunLength(h, i) ==
    LET other == {j \in 1..i : h[j] # h[i]}
    IN  IF other = {} THEN i ELSE i - SetMax(other)

\* C13: over the daily predictions of one cycle, the first without a previous
\* phase and each later one given what the one before returned, every
\* prediction returns, the enforced phase never moves backwards in
\* EF < LF < OV < EL < LL from one day to the next, and the returned
\* day_in_phase is at least 1 and is the number of consecutive days up to
\* that day with the same enforced phase.
C13_SessionNeverRegresses ==
    /\ ~session.failed
    /\ Len(session.counters) = Len(session.phases)
    /\ \A i \in 1..(Len(session.phases) - 1) :
          PhasePosition[session.phases[i + 1]] >= PhasePosition[session.phases[i]]
    /\ \A i \in 1..Len(session.phases) :
          /\ session.counters[i] >= 1
          /\ session.counters[i] = RunLength(session.phases, i)

====
